---- MODULE Spec2Model ----
(***************************************************************************)
(* Model of dns_reverse_proxy.go: a DNS reverse proxy that routes queries  *)
(* to upstream servers by name suffix, optionally remaps name suffixes,    *)
(* and restricts zone transfers (AXFR/IXFR) to an allow-list of clients.   *)
(*                                                                         *)
(* Go strings are modelled as sequences of one-character strings, so that  *)
(* strings.HasSuffix, strings.Replace, strings.Split and strings.SplitN    *)
(* are computed the way the Go library computes them.                      *)
(***************************************************************************)
EXTENDS Integers, Sequences, FiniteSets, TLC

\* ------------------------------------------------------------------------
\* Bounds of the model
\* ------------------------------------------------------------------------
MaxLabels == 2      \* labels in a query name
MaxQuestions == 2   \* questions in a client query
MaxAnswers == 1     \* answer records in an upstream response
MaxEnvelopes == 2   \* envelopes an upstream streams during a transfer

\* ------------------------------------------------------------------------
\* State
\* ------------------------------------------------------------------------
VARIABLES
    pc,             \* position of the process / of the handler
    defaultServer,  \* flag -default
    routeList,      \* flag -route
    remapList,      \* flag -remap
    allowTransfer,  \* flag -allow-transfer
    routes,         \* map suffix -> upstream address
    remaps,         \* map source suffix -> destination suffix
    transferIPs,    \* slice of client hosts allowed to transfer
    query,          \* the query as the client sent it
    w,              \* the ResponseWriter of the query being handled
    req,            \* the request message (route() rewrites it in place)
    matched_src,    \* route(): source of the remap applied, "" if none
    matched_dst,    \* route(): destination of the remap applied
    addr,           \* proxy(): the upstream address it was called with
    upstream,       \* calls made to upstreams for this query, in order
    err,            \* outcome of the last upstream call
    reply,          \* the message the upstream answered the exchange with
    resp,           \* proxy(): the response of the exchange (rewritten in place)
    c,              \* proxy(): envelopes of the channel returned by t.In
    sent,           \* messages written to the client for this query
    parked          \* a second handler in flight, while it is not running

config == <<defaultServer, routeList, remapList, allowTransfer,
            routes, remaps, transferIPs>>

handler == <<query, w, req, matched_src, matched_dst, addr, upstream,
             err, reply, resp, c, sent>>

vars == <<pc, config, handler, parked>>

\* ------------------------------------------------------------------------
\* Go string functions (package strings)
\* ------------------------------------------------------------------------
EmptyStr == << >>

\* strings.HasSuffix(s, suffix)
HasSuffix(s, suffix) ==
    /\ Len(suffix) <= Len(s)
    /\ SubSeq(s, Len(s) - Len(suffix) + 1, Len(s)) = suffix

\* strings.Index(s, substr), 1-based; 0 when substr does not occur.
\* An empty substr occurs at the beginning of s.
Index(s, substr) ==
    LET occ == {i \in 1..(Len(s) - Len(substr) + 1) :
                    SubSeq(s, i, i + Len(substr) - 1) = substr}
    IN  IF occ = {} THEN 0 ELSE CHOOSE i \in occ : \A j \in occ : i <= j

\* strings.Replace(s, old, new, 1): the first (leftmost) occurrence of old
\* in s is replaced by new; s is returned unchanged when old does not occur.
Replace(s, old, new) ==
    LET i == Index(s, old)
    IN  IF i = 0 THEN s
        ELSE SubSeq(s, 1, i - 1) \o new \o SubSeq(s, i + Len(old), Len(s))

\* strings.Split(s, sep) for a one-character separator.
RECURSIVE Split(_, _)
Split(s, sep) ==
    LET i == Index(s, <<sep>>)
    IN  IF i = 0 THEN <<s>>
        ELSE <<SubSeq(s, 1, i - 1)>> \o Split(SubSeq(s, i + 1, Len(s)), sep)

\* strings.SplitN(s, sep, 2) for a one-character separator.
SplitN(s, sep) ==
    LET i == Index(s, <<sep>>)
    IN  IF i = 0 THEN <<s>>
        ELSE <<SubSeq(s, 1, i - 1), SubSeq(s, i + 1, Len(s))>>

\* ------------------------------------------------------------------------
\* Command line flags the process may be started with
\* ------------------------------------------------------------------------
DefaultFlags == { EmptyStr, <<"0">> }

RouteFlags ==
    { EmptyStr,
      <<"b", ".", "=", "1">>,
      <<"b", "=", "1", ",", "a", ".", "b", ".", "=", "2">>,
      <<"b">> }

RemapFlags ==
    { EmptyStr,
      <<"a", ".", "=", "b", ".">>,
      <<"a", "=", "b", ".", ",", "b", ".", "a", ".", "=", "a", ".">>,
      <<"b", ".", "=", "a", ".", "b", ".">>,
      <<"a">> }

AllowFlags ==
    { EmptyStr,
      <<"h">>,
      <<"h", ",", "g">> }

\* ------------------------------------------------------------------------
\* main(): building the configuration
\* ------------------------------------------------------------------------
EmptyMap == [k \in {} |-> EmptyStr]

\* A -route / -remap flag value one of whose entries has no "=".
Malformed(list) ==
    /\ list # EmptyStr
    /\ \E i \in 1..Len(Split(list, ",")) :
            Len(SplitN(Split(list, ",")[i], "=")) # 2

\* main() storing the key as given.
NormalizeKey_AsGiven(k) == k

\* if !strings.HasSuffix(s[0], ".") { s[0] += "." }
NormalizeKey(k) == IF HasSuffix(k, <<".">>) THEN k ELSE k \o <<".">>

\* The loop of main() over the entries of a flag value: m[key] = value.
RECURSIVE BuildMap(_, _)
BuildMap(entries, m) ==
    IF entries = << >> THEN m
    ELSE LET s == SplitN(Head(entries), "=")
             k == NormalizeKey(s[1])
         IN  BuildMap(Tail(entries),
                      [x \in (DOMAIN m) \cup {k} |->
                            IF x = k THEN s[2] ELSE m[x]])

ParseMap(list) ==
    IF list = EmptyStr THEN EmptyMap ELSE BuildMap(Split(list, ","), EmptyMap)

\* ------------------------------------------------------------------------
\* Queries, client connections and upstream behaviour
\* ------------------------------------------------------------------------
Labels == {"a", "b"}

\* Fully qualified names of exactly n labels: "l1.l2. ... ln."
RECURSIVE NamesOfLen(_)
NamesOfLen(n) ==
    IF n = 0 THEN { EmptyStr }
    ELSE { <<l, ".">> \o rest : l \in Labels, rest \in NamesOfLen(n - 1) }

Names == UNION { NamesOfLen(n) : n \in 1..MaxLabels }

TypeA == "A"
TypeAXFR == "AXFR"
TypeIXFR == "IXFR"
QTypes == { TypeA, TypeAXFR, TypeIXFR }

\* Client queries: zero questions (malformed) up to MaxQuestions questions.
Queries ==
    UNION { { [Question |-> [i \in 1..n |-> [Name |-> name, Qtype |-> types[i]]]] :
                name \in Names, types \in [1..n -> QTypes] } :
            n \in 0..MaxQuestions }

\* w.RemoteAddr().String() of the client connection: "host:port" for an
\* IPv4 client, "[host]:port" for an IPv6 client, and "<nil>", the text
\* of an address that is not set, which has no host and port to split.
RemoteAddrs ==
    { <<"h", ":", "5">>, <<"g", ":", "5">>, <<"[", "i", "]", ":", "5">>,
      <<"<", "n", "i", "l", ">">> }

\* The ResponseWriter: the client's address and the kind of its net.Addr.
Writers == [RemoteAddr : RemoteAddrs, Net : {"udp", "tcp"}]

\* Index of the last occurrence of the character ch in s, 0 if none.
LastIndex(s, ch) ==
    LET occ == {i \in 1..Len(s) : s[i] = ch}
    IN  IF occ = {} THEN 0 ELSE CHOOSE i \in occ : \A j \in occ : j <= i

\* host of net.SplitHostPort(hostport); "" when it reports an error.
SplitHost(hostport) ==
    LET i == LastIndex(hostport, ":")
    IN  IF i = 0 THEN EmptyStr
        ELSE IF Len(hostport) > 0 /\ hostport[1] = "["
        THEN LET e == Index(hostport, <<"]">>)
             IN  IF e = 0 \/ e + 1 # i THEN EmptyStr
                 ELSE SubSeq(hostport, 2, e - 1)
        ELSE IF LastIndex(SubSeq(hostport, 1, i - 1), ":") # 0 THEN EmptyStr
        ELSE SubSeq(hostport, 1, i - 1)

NoMsg == [Question |-> << >>, Answer |-> << >>, Truncated |-> FALSE]

\* Replies an upstream may give to the forwarded query q: the question
\* section echoes the forwarded question or is empty; the owner name of
\* an answer is the forwarded name or another name of the zone.
\* Client.Exchange checks neither; with dns.ErrTruncated it still returns
\* the message it unpacked, which has the truncation flag set.
OtherName == <<"b", ".">>

Responses(q, tc) ==
    { [Question |-> qs, Answer |-> an, Truncated |-> tc] :
        qs \in { << >>, <<q.Question[1]>> },
        an \in UNION { [1..n -> { q.Question[1].Name, OtherName }] :
                            n \in 0..MaxAnswers } }

\* What an upstream streams into the channel returned by Transfer.In:
\* envelopes carrying records, ended by the close of the channel or by an
\* envelope that carries an error (dns.Envelope{RR, Error}: a failure of
\* the upstream's stream is reported in Error, not by t.In or t.Out).
EnvelopeSeqs(q) ==
    { [i \in 1..n |-> IF i = n /\ bad
                      THEN [RR |-> << >>, Error |-> TRUE]
                      ELSE [RR |-> <<q.Question[1].Name>>, Error |-> FALSE]] :
        n \in 1..MaxEnvelopes, bad \in BOOLEAN }

\* ------------------------------------------------------------------------
\* The handler's functions
\* ------------------------------------------------------------------------
\* dns.HandleFailed(w, req): a SERVFAIL reply to req (Msg.SetRcode copies
\* the first question of req when there is one).
FailedMsg(q) ==
    [Via |-> "HandleFailed",
     Question |-> IF Len(q.Question) > 0 THEN <<q.Question[1]>> ELSE << >>,
     Answer |-> << >>,
     Truncated |-> FALSE]

\* w.WriteMsg(resp)
RespMsg(r) ==
    [Via |-> "WriteMsg", Question |-> r.Question, Answer |-> r.Answer,
     Truncated |-> r.Truncated]

\* The message Transfer.Out writes for one envelope: a reply to q whose
\* answer section is the envelope's records (the envelope's Error is not
\* looked at).
EnvelopeMsg(q, x) ==
    [Via |-> "Out",
     Question |-> IF Len(q.Question) > 0 THEN <<q.Question[1]>> ELSE << >>,
     Answer |-> x.RR,
     Truncated |-> FALSE]

isTransfer(q) ==
    \E i \in 1..Len(q.Question) : q.Question[i].Qtype \in {TypeIXFR, TypeAXFR}

\* allowed() deciding on the first question only.
allowed_FirstQuestion(wr, q) ==
    IF ~(Len(q.Question) > 0 /\ q.Question[1].Qtype \in {TypeIXFR, TypeAXFR}) THEN TRUE
    ELSE \E i \in 1..Len(transferIPs) : transferIPs[i] = SplitHost(wr.RemoteAddr)

\* allowed() comparing the whole address text, host and port unsplit.
allowed_FullAddr(wr, q) ==
    IF ~isTransfer(q) THEN TRUE
    ELSE \E i \in 1..Len(transferIPs) : transferIPs[i] = wr.RemoteAddr

allowed(wr, q) ==
    IF ~isTransfer(q) THEN TRUE
    ELSE \E i \in 1..Len(transferIPs) : transferIPs[i] = SplitHost(wr.RemoteAddr)

\* The remap loop rewriting the name without recording the pair it applied.
RemapChoices_NoRecord(name) ==
    LET hits == {src \in DOMAIN remaps : HasSuffix(name, src)}
    IN  IF hits = {}
        THEN { [src |-> EmptyStr, dst |-> EmptyStr, name |-> name] }
        ELSE { [src |-> EmptyStr, dst |-> EmptyStr,
                name |-> Replace(name, s, remaps[s])] : s \in hits }

\* The remap loop of route(): ranging over the map visits the keys in an
\* unspecified order, so any source that is a suffix of the name may be
\* the one found first.
RemapChoices(name) ==
    LET hits == {src \in DOMAIN remaps : HasSuffix(name, src)}
    IN  IF hits = {}
        THEN { [src |-> EmptyStr, dst |-> EmptyStr, name |-> name] }
        ELSE { [src |-> s, dst |-> remaps[s],
                name |-> Replace(name, s, remaps[s])] : s \in hits }

\* The route loop never entered: every query goes to the default server.
RouteChoices_DefaultOnly(name) == { defaultServer }

\* The route loop testing strings.HasPrefix instead of strings.HasSuffix.
RouteChoices_Prefix(name) ==
    LET hits == {k \in DOMAIN routes :
                    Len(k) <= Len(name) /\ SubSeq(name, 1, Len(k)) = k}
    IN  IF hits = {} THEN { defaultServer } ELSE { routes[k] : k \in hits }

\* The route loop of route(): the upstream of any key that is a suffix of
\* the name, the default server when there is none.
RouteChoices(name) ==
    LET hits == {k \in DOMAIN routes : HasSuffix(name, k)}
    IN  IF hits = {} THEN { defaultServer } ELSE { routes[k] : k \in hits }

\* req with the name of its first question set to name.
WithName(q, name) ==
    [q EXCEPT !.Question[1].Name = name]

\* The rewrite of the response in proxy().
Rewrite(r, src, dst) ==
    [r EXCEPT !.Question[1].Name = Replace(@, dst, src),
              !.Answer = [i \in 1..Len(r.Answer) |-> Replace(r.Answer[i], dst, src)]]

NoQuery == [Question |-> << >>]
NoWriter == [RemoteAddr |-> EmptyStr, Net |-> "udp"]

\* The state of a handler: its position and the variables of handler.
NoHandler ==
    [pc |-> "idle", query |-> NoQuery, w |-> NoWriter, req |-> NoQuery,
     matched_src |-> EmptyStr, matched_dst |-> EmptyStr, addr |-> EmptyStr,
     upstream |-> << >>, err |-> "nil", reply |-> NoMsg, resp |-> NoMsg,
     c |-> << >>, sent |-> << >>]

Running ==
    [pc |-> pc, query |-> query, w |-> w, req |-> req,
     matched_src |-> matched_src, matched_dst |-> matched_dst, addr |-> addr,
     upstream |-> upstream, err |-> err, reply |-> reply, resp |-> resp,
     c |-> c, sent |-> sent]

Init ==
    /\ pc = "main"
    /\ defaultServer \in DefaultFlags
    /\ routeList \in RouteFlags
    /\ remapList \in RemapFlags
    /\ allowTransfer \in AllowFlags
    /\ routes = EmptyMap
    /\ remaps = EmptyMap
    /\ transferIPs = << >>
    /\ query = NoQuery
    /\ w = NoWriter
    /\ req = NoQuery
    /\ matched_src = EmptyStr
    /\ matched_dst = EmptyStr
    /\ addr = EmptyStr
    /\ upstream = << >>
    /\ err = "nil"
    /\ reply = NoMsg
    /\ resp = NoMsg
    /\ c = << >>
    /\ sent = << >>
    /\ parked = NoHandler

\* main() without the test of -default.
FatalConfig_NoDefaultCheck ==
    Malformed(routeList) \/ Malformed(remapList)

\* The log.Fatal calls of main(): -default is missing, or an entry of
\* -route or of -remap has no "=".
FatalConfig ==
    defaultServer = EmptyStr \/ Malformed(routeList) \/ Malformed(remapList)

\* main() up to the start of the listeners.
Main ==
    /\ pc = "main"
    /\ IF FatalConfig
       THEN /\ pc' = "fatal"
            /\ UNCHANGED <<routes, remaps, transferIPs>>
       ELSE /\ pc' = "idle"
            /\ transferIPs' = Split(allowTransfer, ",")
            /\ routes' = ParseMap(routeList)
            /\ remaps' = ParseMap(remapList)
    /\ UNCHANGED <<defaultServer, routeList, remapList, allowTransfer>>
    /\ UNCHANGED <<handler, parked>>

\* A listener hands a query to the handler (dns.HandleFunc(".", route)).
Receive ==
    /\ pc = "idle"
    /\ \E q \in Queries, wr \in Writers :
        /\ query' = q
        /\ req' = q
        /\ w' = wr
    /\ pc' = "route"
    /\ UNCHANGED <<matched_src, matched_dst, addr, upstream, err, reply, resp, c, sent>>
    /\ UNCHANGED <<parked, config>>

\* proxy() taking every client for a TCP client.
Transport_AlwaysTcp(wr) == "tcp"

\* proxy() without the test of the client's address type.
Transport_AlwaysUdp(wr) == "udp"

\* transport := "udp"; if w.RemoteAddr() is a *net.TCPAddr, "tcp".
Transport(wr) == IF wr.Net = "tcp" THEN "tcp" ELSE "udp"

\* proxy() up to its first call to the upstream.
ProxyCall(a, q, src, dst) ==
    /\ addr' = a
    /\ req' = q
    /\ matched_src' = src
    /\ matched_dst' = dst
    /\ IF isTransfer(q)
       THEN IF Transport(w) # "tcp"
            THEN /\ sent' = Append(sent, FailedMsg(q))
                 /\ pc' = "done"
                 /\ UNCHANGED upstream
            ELSE /\ upstream' = Append(upstream,
                        [Op |-> "In", Addr |-> a, Net |-> "tcp", Question |-> q.Question])
                 /\ pc' = "transfer_in"
                 /\ UNCHANGED sent
       ELSE /\ upstream' = Append(upstream,
                        [Op |-> "Exchange", Addr |-> a, Net |-> Transport(w), Question |-> q.Question])
            /\ pc' = "exchange"
            /\ UNCHANGED sent

\* route() without the test of len(req.Question).
Rejected_NoLenCheck(wr, q) == ~allowed(wr, q)

\* if len(req.Question) == 0 || !allowed(w, req)
Rejected(wr, q) == Len(q.Question) = 0 \/ ~allowed(wr, q)

\* route(), and proxy() up to its first call to the upstream.
Route ==
    /\ pc = "route"
    /\ IF Rejected(w, req)
       THEN /\ sent' = Append(sent, FailedMsg(req))
            /\ pc' = "done"
            /\ UNCHANGED <<req, matched_src, matched_dst, addr, upstream>>
       ELSE IF Len(req.Question) = 0
       THEN \* The bodies of both loops read req.Question[0]: with no question
            \* that is an index out of range as soon as a map has an entry.
            IF DOMAIN remaps # {} \/ DOMAIN routes # {}
            THEN /\ pc' = "panic"
                 /\ UNCHANGED <<req, matched_src, matched_dst, addr, upstream, sent>>
            ELSE ProxyCall(defaultServer, req, EmptyStr, EmptyStr)
       ELSE \E m \in RemapChoices(req.Question[1].Name) :
            \E a \in RouteChoices(m.name) :
                ProxyCall(a, WithName(req, m.name), m.src, m.dst)
    /\ UNCHANGED <<parked, config, query, w, err, reply, resp, c>>

\* proxy() treating truncation as any other error: if err != nil
ExchangeFailed_Strict(e) == e # "nil"

\* if err != nil && err != dns.ErrTruncated
ExchangeFailed(e) == e # "nil" /\ e # "ErrTruncated"

\* c.Exchange(req, addr) returns; the rest of proxy() for an ordinary query.
Exchange ==
    /\ pc = "exchange"
    /\ \E e \in {"nil", "ErrTruncated", "error"} :
       \E r \in IF e = "error" THEN { NoMsg } ELSE Responses(req, e = "ErrTruncated") :
        /\ err' = e
        /\ reply' = r
        /\ IF ExchangeFailed(e)
           THEN /\ resp' = r
                /\ sent' = Append(sent, FailedMsg(req))
                /\ pc' = "done"
           ELSE IF matched_src # EmptyStr
           THEN IF Len(r.Question) = 0
                THEN \* resp.Question[0]: index out of range, the handler panics
                     /\ resp' = r
                     /\ pc' = "panic"
                     /\ UNCHANGED sent
                ELSE /\ resp' = Rewrite(r, matched_src, matched_dst)
                     /\ sent' = Append(sent, RespMsg(resp'))
                     /\ pc' = "done"
           ELSE /\ resp' = r
                /\ sent' = Append(sent, RespMsg(r))
                /\ pc' = "done"
    /\ UNCHANGED <<parked, config, query, w, req, matched_src, matched_dst, addr, upstream, c>>

\* t.In(req, addr) returns.
TransferIn ==
    /\ pc = "transfer_in"
    /\ \/ /\ err' = "error"
          /\ sent' = Append(sent, FailedMsg(req))
          /\ pc' = "done"
          /\ UNCHANGED c
       \/ /\ err' = "nil"
          /\ c' \in EnvelopeSeqs(req)
          /\ pc' = "transfer_out"
          /\ UNCHANGED sent
    /\ UNCHANGED <<parked, config, query, w, req, matched_src, matched_dst, addr, upstream, reply, resp>>

\* The messages Transfer.Out has written when it returns: one per envelope,
\* up to the write that failed (failAt = 0: no write failed).
OutWritten(q, ch, failAt) ==
    LET n == IF failAt = 0 THEN Len(ch) ELSE failAt - 1
    IN  [i \in 1..n |-> EnvelopeMsg(q, ch[i])]

\* t.Out(w, req, c) returns; the rest of proxy() for a transfer.
TransferOut ==
    /\ pc = "transfer_out"
    /\ \E failAt \in 0..Len(c) :
        IF failAt # 0
        THEN /\ err' = "error"
             /\ sent' = Append(sent \o OutWritten(req, c, failAt), FailedMsg(req))
        ELSE /\ err' = "nil"
             /\ sent' = sent \o OutWritten(req, c, failAt)
    /\ pc' = "done"
    /\ UNCHANGED <<parked, config, query, w, req, matched_src, matched_dst, addr, upstream, reply, resp, c>>

\* The handler has returned; its goroutine ends and the request, the
\* writer and the locals of route() and proxy() are gone.
Return ==
    /\ pc = "done"
    /\ pc' = "idle"
    /\ query' = NoQuery
    /\ w' = NoWriter
    /\ req' = NoQuery
    /\ matched_src' = EmptyStr
    /\ matched_dst' = EmptyStr
    /\ addr' = EmptyStr
    /\ upstream' = << >>
    /\ err' = "nil"
    /\ reply' = NoMsg
    /\ resp' = NoMsg
    /\ c' = << >>
    /\ sent' = << >>
    /\ UNCHANGED <<parked, config>>

Next ==
    \/ Main
    \/ Receive
    \/ Route
    \/ Exchange
    \/ TransferIn
    \/ TransferOut
    \/ Return

Spec == Init /\ [][Next]_vars

\* ------------------------------------------------------------------------
\* Two queries handled concurrently
\* ------------------------------------------------------------------------
\* The servers run route() in a goroutine of its own for every query. Two
\* handlers are in flight at most: the one whose variables are the state
\* variables, and the one kept in parked. The scheduler switches between
\* them at the calls that block.
ConcQueries ==
    { [Question |-> <<[Name |-> name, Qtype |-> t]>>] :
        name \in { <<"a", ".">>, <<"a", ".", "b", ".">> }, t \in QTypes }

ConcWriters ==
    { [RemoteAddr |-> <<"h", ":", "5">>, Net |-> "tcp"],
      [RemoteAddr |-> <<"g", ":", "5">>, Net |-> "udp"] }

InitConc ==
    /\ Init
    /\ defaultServer = <<"0">>
    /\ routeList = <<"b", "=", "1", ",", "a", ".", "b", ".", "=", "2">>
    /\ remapList = <<"a", ".", "=", "b", ".">>
    /\ allowTransfer = <<"h">>

ReceiveConc ==
    /\ pc = "idle"
    /\ \E q \in ConcQueries, wr \in ConcWriters :
        /\ query' = q
        /\ req' = q
        /\ w' = wr
    /\ pc' = "route"
    /\ UNCHANGED <<matched_src, matched_dst, addr, upstream, err, reply, resp, c, sent>>
    /\ UNCHANGED <<parked, config>>

\* The switch, had matched_src and matched_dst been package variables
\* shared by the handlers instead of locals of route().
Yield_SharedMatched ==
    /\ pc \notin {"main", "fatal", "panic"}
    /\ pc # "idle" \/ parked.pc # "idle"
    /\ parked' = Running
    /\ pc' = parked.pc
    /\ query' = parked.query
    /\ w' = parked.w
    /\ req' = parked.req
    /\ addr' = parked.addr
    /\ upstream' = parked.upstream
    /\ err' = parked.err
    /\ reply' = parked.reply
    /\ resp' = parked.resp
    /\ c' = parked.c
    /\ sent' = parked.sent
    /\ UNCHANGED <<matched_src, matched_dst, config>>

\* The running handler blocks or is preempted and the other one runs.
Yield ==
    /\ pc \notin {"main", "fatal", "panic"}
    /\ pc # "idle" \/ parked.pc # "idle"
    /\ parked' = Running
    /\ pc' = parked.pc
    /\ query' = parked.query
    /\ w' = parked.w
    /\ req' = parked.req
    /\ matched_src' = parked.matched_src
    /\ matched_dst' = parked.matched_dst
    /\ addr' = parked.addr
    /\ upstream' = parked.upstream
    /\ err' = parked.err
    /\ reply' = parked.reply
    /\ resp' = parked.resp
    /\ c' = parked.c
    /\ sent' = parked.sent
    /\ UNCHANGED config

NextConc ==
    \/ Main
    \/ ReceiveConc
    \/ Route
    \/ Exchange
    \/ TransferIn
    \/ TransferOut
    \/ Return
    \/ Yield

SpecConc == InitConc /\ [][NextConc]_vars

\* ------------------------------------------------------------------------
\* Properties
\* ------------------------------------------------------------------------
\* route() has run for the query in hand.
Handled == pc \in {"exchange", "transfer_in", "transfer_out", "done", "panic"}

\* route() did not reject the query: it called proxy().
Routed == Handled /\ Len(query.Question) > 0 /\ allowed(w, query)

\* The route keys the (remapped) name of the first question ends with.
RouteHits == {S \in DOMAIN routes : HasSuffix(req.Question[1].Name, S)}

\* The host text of the client is no entry of the allow-list.
NotInAllowList ==
    \A i \in 1..Len(transferIPs) : transferIPs[i] # SplitHost(w.RemoteAddr)

\* Every call made to an upstream for this query went to address a.
OnlyUpstream(a) == \A i \in 1..Len(upstream) : upstream[i].Addr = a

\* C1 as stated: an accepted query whose (remapped) name ends with a route
\* suffix S is handed to the upstream of S, for every such S.
C1_EverySuffixWins ==
    Routed => \A S \in RouteHits : addr = routes[S]

\* C1 amended: an accepted query whose (remapped) name ends with at least
\* one route suffix is handed to the upstream of one of the suffixes it ends
\* with, and no other upstream is called for it.
C1_SomeSuffixWins ==
    (Routed /\ RouteHits # {}) =>
        /\ addr \in {routes[S] : S \in RouteHits}
        /\ OnlyUpstream(addr)
        /\ (~(isTransfer(query) /\ w.Net = "udp") => Len(upstream) = 1)

C1_Witness ==
    /\ pc = "done"
    /\ Routed
    /\ Cardinality({routes[S] : S \in RouteHits}) = 2
    /\ addr = <<"2">>
    /\ Len(upstream) = 1
    /\ upstream[1].Addr = <<"2">>

\* C2: an accepted query whose (remapped) name ends with no route key is
\* handed to the default server, and no other upstream is called for it.
C2_DefaultWhenNoRoute ==
    (Routed /\ RouteHits = {}) =>
        /\ addr = defaultServer
        /\ OnlyUpstream(defaultServer)
        /\ (~(isTransfer(query) /\ w.Net = "udp") => Len(upstream) = 1)

C2_Witness ==
    /\ pc = "done"
    /\ Routed
    /\ RouteHits = {}
    /\ DOMAIN routes # {}
    /\ matched_src # EmptyStr
    /\ Len(upstream) = 1
    /\ upstream[1].Addr = defaultServer

\* C3: a transfer query of a client whose host is not in the allow-list
\* makes no call to any upstream and is answered by one failure response.
C3_UnauthorizedTransfer ==
    (Handled /\ isTransfer(query) /\ NotInAllowList) =>
        /\ upstream = << >>
        /\ pc = "done"
        /\ sent = <<FailedMsg(query)>>

C3_Witness ==
    /\ pc = "done"
    /\ isTransfer(query)
    /\ NotInAllowList
    /\ w.Net = "tcp"
    /\ query.Question[1].Qtype = TypeA
    /\ DOMAIN remaps # {}
    /\ upstream = << >>
    /\ sent = <<FailedMsg(query)>>

\* C4: a transfer query received over UDP makes no call to any upstream and
\* is answered by one failure response, also for a client of the allow-list.
C4_TransferOverUdp ==
    (Handled /\ isTransfer(query) /\ w.Net = "udp") =>
        /\ upstream = << >>
        /\ pc = "done"
        /\ Len(sent) = 1
        /\ sent[1].Via = "HandleFailed"

C4_Witness ==
    /\ pc = "done"
    /\ w.Net = "udp"
    /\ Len(query.Question) = 2
    /\ query.Question[1].Qtype = TypeA
    /\ query.Question[2].Qtype = TypeIXFR
    /\ ~NotInAllowList
    /\ addr # EmptyStr
    /\ upstream = << >>
    /\ Len(sent) = 1
    /\ sent[1].Via = "HandleFailed"

\* The name the client asked for, and the name forwarded to the upstream.
ClientName == query.Question[1].Name
ForwardedName == req.Question[1].Name

\* C5 as stated: when a remap src->dst was applied to a query that was
\* forwarded, the forwarded name is the client's name with its trailing src
\* replaced by dst.
C5_SuffixReplaced ==
    (Routed /\ matched_src # EmptyStr /\ Len(upstream) > 0) =>
        /\ HasSuffix(ClientName, matched_src)
        /\ ForwardedName =
              SubSeq(ClientName, 1, Len(ClientName) - Len(matched_src)) \o matched_dst

\* The upstream's reply echoes the forwarded name in its first question and
\* in the owner name of every answer.
Echoed ==
    /\ Len(reply.Question) > 0
    /\ reply.Question[1].Name = ForwardedName
    /\ \A i \in 1..Len(reply.Answer) : reply.Answer[i] = ForwardedName

\* C6 as stated: for an ordinary query to which a remap was applied and
\* whose reply echoes the forwarded name, the response written to the client
\* carries the client's name in its first question and in every answer.
C6_SymmetricUndo ==
    (/\ pc = "done"
     /\ Routed
     /\ ~isTransfer(query)
     /\ matched_src # EmptyStr
     /\ ~ExchangeFailed(err)
     /\ Echoed) =>
        /\ Len(sent) = 1
        /\ sent[1].Question[1].Name = ClientName
        /\ \A i \in 1..Len(sent[1].Answer) : sent[1].Answer[i] = ClientName

C8_AnsweredOnce ==
    pc \in {"done", "panic"} =>
        /\ sent # << >>
        /\ (~isTransfer(query) => Len(sent) = 1)
        /\ (\E i \in 1..Len(sent) : sent[i].Via = "HandleFailed") => Len(sent) = 1

\* C9 as stated: no request makes the handler end in an unhandled fault.
C9_NoPanic == pc # "panic"

\* The transfer failed: at the open stage or while writing to the client
\* (err), or while the upstream streamed (an envelope carries an error).
TransferFailed ==
    \/ err = "error"
    \/ \E i \in 1..Len(c) : c[i].Error

\* C10 as stated: an authorized transfer over TCP that failed at any stage
\* ends with a failure response to the client.
C10_FailedTransferFails ==
    (/\ pc = "done"
     /\ Routed
     /\ isTransfer(query)
     /\ w.Net = "tcp"
     /\ TransferFailed) =>
        /\ sent # << >>
        /\ sent[Len(sent)].Via = "HandleFailed"

\* C11: a query with no question is answered by one failure response in
\* route() itself: no remap is applied to it, proxy() is not called for it
\* and no upstream is called.
C11_NoQuestionRejected ==
    (Handled /\ Len(query.Question) = 0) =>
        /\ pc = "done"
        /\ req = query
        /\ matched_src = EmptyStr
        /\ addr = EmptyStr
        /\ upstream = << >>
        /\ Len(sent) = 1
        /\ sent[1].Via = "HandleFailed"
        /\ sent[1].Question = << >>

C11_Witness ==
    /\ pc = "done"
    /\ Len(query.Question) = 0
    /\ DOMAIN remaps # {}
    /\ DOMAIN routes # {}
    /\ upstream = << >>
    /\ Len(sent) = 1
    /\ sent[1].Via = "HandleFailed"

\* The host part of the client's address, read off the address text.
ClientHost ==
    CASE w.RemoteAddr = <<"h", ":", "5">> -> <<"h">>
      [] w.RemoteAddr = <<"g", ":", "5">> -> <<"g">>
      [] w.RemoteAddr = <<"[", "i", "]", ":", "5">> -> <<"i">>
      [] OTHER -> EmptyStr

\* route() called proxy() for the query in hand (the address proxy() is
\* called with is the default server or the value of a route, not "").
ProxyCalled == addr # EmptyStr

\* C12: a query with a question passes allowed() exactly when it has no
\* AXFR or IXFR question in any position, or the host text of the client
\* equals an entry of the allow-list.
C12_AllowedDecision ==
    (Handled /\ Len(query.Question) > 0) =>
        (ProxyCalled <=>
            \/ \A i \in 1..Len(query.Question) :
                    query.Question[i].Qtype \notin {"AXFR", "IXFR"}
            \/ \E j \in 1..Len(transferIPs) : transferIPs[j] = ClientHost)

C12_Witness ==
    /\ pc = "transfer_in"
    /\ Len(query.Question) = 2
    /\ query.Question[1].Qtype = "A"
    /\ query.Question[2].Qtype = "AXFR"
    /\ w = [RemoteAddr |-> <<"g", ":", "5">>, Net |-> "tcp"]
    /\ transferIPs = << <<"h">>, <<"g">> >>
    /\ ProxyCalled

\* Every entry of a -route / -remap flag value has a "=".
WellFormed(list) ==
    \/ list = EmptyStr
    \/ \A i \in 1..Len(Split(list, ",")) :
            \E j \in 1..Len(Split(list, ",")[i]) : Split(list, ",")[i][j] = "="

\* No query has been handed to the handler.
NothingHandled ==
    /\ query = NoQuery
    /\ upstream = << >>
    /\ sent = << >>

\* C13: when the listeners are started -default is not empty and every
\* entry of -route and -remap has a "="; with any other flags main() ends
\* in log.Fatal, its first and only step, and no query is ever handled.
C13_StartupOrdering ==
    /\ [](pc \notin {"main", "fatal"} =>
            /\ defaultServer # EmptyStr
            /\ WellFormed(routeList)
            /\ WellFormed(remapList))
    /\ [](pc \in {"main", "fatal"} => NothingHandled)
    /\ [][(/\ pc = "main"
           /\ \/ defaultServer = EmptyStr
              \/ ~WellFormed(routeList)
              \/ ~WellFormed(remapList)) => pc' = "fatal"]_vars
    /\ [][pc = "fatal" => pc' = "fatal"]_vars

C13_Witness ==
    /\ pc = "fatal"
    /\ defaultServer # EmptyStr
    /\ WellFormed(routeList)
    /\ ~WellFormed(remapList)
    /\ NothingHandled

\* C16: an accepted ordinary query makes exactly one call to an upstream:
\* one Exchange, with the address route() chose, over the transport the
\* client used; also when the exchange reports truncation.
C16_OneExchange ==
    (Routed /\ ~isTransfer(query)) =>
        /\ Len(upstream) = 1
        /\ upstream[1].Op = "Exchange"
        /\ upstream[1].Addr = addr
        /\ upstream[1].Net = w.Net
        /\ upstream[1].Question = req.Question

C16_Witness ==
    /\ pc = "done"
    /\ Routed
    /\ ~isTransfer(query)
    /\ err = "ErrTruncated"
    /\ w.Net = "udp"
    /\ DOMAIN routes # {}
    /\ Len(upstream) = 1
    /\ upstream[1].Net = "udp"

\* C17: once main() has built the configuration, every key of routes and
\* every key of remaps ends with ".".
C17_KeysEndWithDot ==
    pc \notin {"main", "fatal"} =>
        \A k \in (DOMAIN routes) \cup (DOMAIN remaps) :
            Len(k) > 0 /\ k[Len(k)] = "."

C17_Witness ==
    /\ pc = "idle"
    /\ routeList = <<"b", "=", "1", ",", "a", ".", "b", ".", "=", "2">>
    /\ remapList = <<"a", "=", "b", ".", ",", "b", ".", "a", ".", "=", "a", ".">>
    /\ DOMAIN routes = { <<"b", ".">>, <<"a", ".", "b", ".">> }
    /\ DOMAIN remaps = { <<"a", ".">>, <<"b", ".", "a", ".">> }

\* A source of the remap table is a suffix of the client's name.
RemapApplies == \E src \in DOMAIN remaps : HasSuffix(ClientName, src)

\* C18: the recorded source is non-empty exactly when a remap applies to
\* the client's name; when none applies the request is forwarded as sent
\* and the response of an ordinary query is written to the client as the
\* upstream gave it.
C18_RewriteOnlyAfterRemap ==
    Routed =>
        /\ (matched_src # EmptyStr <=> RemapApplies)
        /\ (~RemapApplies => req = query)
        /\ (/\ ~RemapApplies
            /\ pc = "done"
            /\ ~isTransfer(query)
            /\ ~ExchangeFailed(err)) => sent = <<RespMsg(reply)>>

C18_Witness ==
    /\ pc = "done"
    /\ Routed
    /\ ~isTransfer(query)
    /\ ~ExchangeFailed(err)
    /\ ~RemapApplies
    /\ matched_src = EmptyStr
    /\ Len(reply.Question) = 1
    /\ Len(reply.Answer) = 1
    /\ \E src \in DOMAIN remaps : Index(reply.Question[1].Name, remaps[src]) # 0
    /\ sent = <<RespMsg(reply)>>

\* C19 as stated: every message written to the client that has a question
\* carries the name the client asked for (stated for the clients whose
\* address has a host).
C19_RemapInvisible ==
    ClientHost # EmptyStr =>
        \A i \in 1..Len(sent) :
            Len(sent[i].Question) > 0 => sent[i].Question[1].Name = ClientName

\* C20 as stated: when -allow-transfer is not given, no upstream is called
\* for a transfer query and it is answered by one failure response,
\* whatever the client's address.
C20_NoListNoTransfer ==
    (Handled /\ allowTransfer = EmptyStr /\ isTransfer(query)) =>
        /\ upstream = << >>
        /\ pc = "done"
        /\ Len(sent) = 1
        /\ sent[1].Via = "HandleFailed"

\* What handler h chose and wrote follows from the configuration, its own
\* query and what its own upstream call returned.
OwnOutcome(h) ==
    (/\ h.pc \in {"exchange", "transfer_in", "transfer_out", "done", "panic"}
     /\ Len(h.query.Question) > 0
     /\ allowed(h.w, h.query)) =>
        /\ \E m \in RemapChoices(h.query.Question[1].Name) :
              /\ h.req = WithName(h.query, m.name)
              /\ h.matched_src = m.src
              /\ h.matched_dst = m.dst
              /\ h.addr \in RouteChoices(m.name)
        /\ (h.pc = "done" /\ ~isTransfer(h.query)) =>
              h.sent = << IF ExchangeFailed(h.err) THEN FailedMsg(h.req)
                          ELSE IF h.matched_src = EmptyStr THEN RespMsg(h.reply)
                          ELSE RespMsg(Rewrite(h.reply, h.matched_src, h.matched_dst)) >>

\* C15: once main() has built the configuration no step of any handler,
\* in any interleaving of two handlers, changes the flags, the default
\* server, routes, remaps or transferIPs; and what each of the two handlers
\* chose and wrote depends on its own query and upstream result only.
C15_ConfigReadOnly ==
    /\ [][pc # "main" => UNCHANGED config]_vars
    /\ [](OwnOutcome(Running) /\ OwnOutcome(parked))

C15_Witness ==
    /\ pc = "done"
    /\ parked.pc = "exchange"
    /\ query # parked.query
    /\ matched_src = EmptyStr
    /\ parked.matched_src # EmptyStr
    /\ addr # parked.addr
    /\ Len(sent) = 1
    /\ sent[1].Via = "WriteMsg"
====
